---- MODULE Spec2Model ----
(***************************************************************************)
(* A model of pyIAST's isotherms.py: the ModelIsotherm and                 *)
(* InterpolatorIsotherm classes, their constructors and their two          *)
(* evaluations, loading(P) and spreading_pressure(P).                      *)
(*                                                                         *)
(* Numbers.  The program computes in IEEE doubles through numpy, so a      *)
(* division by zero yields inf or nan and raises nothing.  The model       *)
(* computes exactly: a number is a pair <<n, d>>, the rational n/d in      *)
(* lowest terms with d > 0, and <<1,0>>, <<-1,0>>, <<0,0>> stand for +inf, *)
(* -inf and nan.  Rounding and the sign of zero are not modelled.          *)
(* A natural logarithm that is no rational is kept symbolic: a value is    *)
(* [r |-> number, logs |-> sequence of <<c, a>>], meaning                  *)
(* r + sum of c * ln(a).                                                   *)
(***************************************************************************)
EXTENDS Integers, Sequences, FiniteSets, TLC

VARIABLES
    table,          \* the caller's DataFrame: rows <<pressure, loading>>, row label = position
    frames,         \* the DataFrame objects the instances hold, by address
    dicts,          \* the parameter dictionaries, by address (module level and instance owned)
    inst,           \* the caller's isotherm variables: name -> the object bound to it
    last            \* the most recent call: its arguments, what it did, what it returned or raised

vars == <<table, frames, dicts, inst, last>>

----------------------------------------------------------------------------
(* Bounds of the model *)

MaxP == 2           \* sample pressures are 0..MaxP, query pressures 0..MaxP+1
MaxL == 1           \* sample loadings are 0..MaxL
MaxRows == 2        \* rows of the caller's table
MaxParam == 1       \* the parameter values of a fitted model are -1..MaxParam

----------------------------------------------------------------------------
(* Numbers *)

Abs(x) == IF x < 0 THEN -x ELSE x

Sgn(x) == IF x < 0 THEN -1 ELSE IF x > 0 THEN 1 ELSE 0

RECURSIVE GCD(_, _)
GCD(a, b) == IF b = 0 THEN a ELSE GCD(b, a % b)

NaN == <<0, 0>>
PInf == <<1, 0>>
NInf == <<-1, 0>>
Zero == <<0, 1>>
One == <<1, 1>>

Int2Num(k) == <<k, 1>>

\* n/d for integers n, d in lowest terms; d = 0 gives an infinity or nan
Norm(n, d) ==
    IF d = 0 THEN <<Sgn(n), 0>>
    ELSE LET g == GCD(Abs(n), Abs(d))
         IN  <<(Sgn(d) * n) \div g, Abs(d) \div g>>

IsNaN(a) == a = NaN
IsInf(a) == a[2] = 0 /\ a[1] # 0
IsFinite(a) == a[2] # 0
NumSgn(a) == Sgn(a[1])

Neg(a) == <<-a[1], a[2]>>

Add(a, b) ==
    IF IsNaN(a) \/ IsNaN(b) THEN NaN
    ELSE IF IsInf(a) /\ IsInf(b) THEN (IF a = b THEN a ELSE NaN)
    ELSE IF IsInf(a) THEN a
    ELSE IF IsInf(b) THEN b
    ELSE Norm(a[1] * b[2] + b[1] * a[2], a[2] * b[2])

Sub(a, b) == Add(a, Neg(b))

\* inf * 0 = nan falls out of Norm(0, 0)
Mul(a, b) == Norm(a[1] * b[1], a[2] * b[2])

\* numpy: x / 0 is +-inf, 0 / 0 is nan, x / inf is 0
Inv(a) ==
    IF a[1] = 0 THEN (IF a[2] = 0 THEN NaN ELSE PInf)
    ELSE IF a[2] = 0 THEN Zero
    ELSE <<Sgn(a[1]) * a[2], Abs(a[1])>>

Div(a, b) == Mul(a, Inv(b))

\* a < b, a <= b on finite numbers
Lt(a, b) == a[1] * b[2] < b[1] * a[2]
Le(a, b) == a[1] * b[2] <= b[1] * a[2]

RECURSIVE IntPow(_, _)
IntPow(a, k) == IF k = 0 THEN One ELSE Mul(a, IntPow(a, k - 1))

\* x ** n as numpy computes it, for an integral exponent n (the exponents of the
\* model are integers): x ** 0 = 1 for every x, 0 ** n = inf for n < 0
Pow(x, n) ==
    IF IsNaN(n) THEN (IF x = One THEN One ELSE NaN)
    ELSE IF n[1] = 0 /\ n[2] # 0 THEN One
    ELSE IF IsNaN(x) THEN NaN
    ELSE IF IsInf(n) \/ n[2] # 1 THEN NaN
    ELSE IF n[1] > 0 THEN IntPow(x, n[1])
    ELSE Inv(IntPow(x, -n[1]))

----------------------------------------------------------------------------
(* Values with symbolic logarithms *)

NumVal(x) == [r |-> x, logs |-> <<>>]

ZeroVal == NumVal(Zero)

\* c * np.log(a): log(1) = 0, log(0) = -inf, log(negative) = nan, log(inf) = inf
LogVal(c, a) ==
    IF IsNaN(a) \/ a = NInf \/ (IsFinite(a) /\ a[1] < 0) THEN NumVal(Mul(c, NaN))
    ELSE IF a = PInf THEN NumVal(Mul(c, PInf))
    ELSE IF a[1] = 0 THEN NumVal(Mul(c, NInf))
    ELSE IF a = One THEN NumVal(Mul(c, Zero))
    ELSE IF ~IsFinite(c) THEN NumVal(Mul(c, IF Lt(One, a) THEN One ELSE Neg(One)))
    ELSE IF c = Zero THEN ZeroVal
    ELSE [r |-> Zero, logs |-> << <<c, a>> >>]

AddVal(u, v) ==
    LET r == Add(u.r, v.r)
    IN  IF IsFinite(r) THEN [r |-> r, logs |-> u.logs \o v.logs] ELSE NumVal(r)

\* u - v, for finite u and v
SubVal(u, v) ==
    [r |-> Sub(u.r, v.r),
     logs |-> u.logs \o [k \in 1..Len(v.logs) |-> <<Neg(v.logs[k][1]), v.logs[k][2]>>]]

----------------------------------------------------------------------------
(* The sign of a value.  ln(a) is written over the primes that divide a's   *)
(* numerator and denominator; a value whose rational part and prime         *)
(* coefficients are all 0 is 0, and no other is (1, ln 2, ln 3, ... are     *)
(* linearly independent over the rationals).  The sign of a nonzero value   *)
(* is read from bounds on the logarithms of the primes.                     *)

Primes == <<2, 3, 5, 7>>

\* LnLo[k] / 10000 < ln(Primes[k]) < LnHi[k] / 10000
LnLo == <<6931, 10986, 16094, 19459>>
LnHi == <<6932, 10987, 16095, 19460>>

RECURSIVE Expo(_, _)
\* the exponent of prime p in the positive integer m
Expo(p, m) == IF m % p # 0 THEN 0 ELSE 1 + Expo(p, m \div p)

RECURSIVE Unfactored(_, _)
\* what is left of m once the first k primes are divided out
Unfactored(m, k) ==
    IF k = 0 THEN m
    ELSE LET u == Unfactored(m, k - 1)
             p == Primes[k]
             RECURSIVE Strip(_)
             Strip(x) == IF x % p = 0 THEN Strip(x \div p) ELSE x
         IN  Strip(u)

Factorable(a) == Unfactored(a[1], Len(Primes)) = 1 /\ Unfactored(a[2], Len(Primes)) = 1

RECURSIVE PrimeCoef(_, _, _)
\* the coefficient of ln(Primes[k]) in the sum of the first j terms of logs
PrimeCoef(logs, k, j) ==
    IF j = 0 THEN Zero
    ELSE LET c == logs[j][1]
             a == logs[j][2]
             e == Expo(Primes[k], a[1]) - Expo(Primes[k], a[2])
         IN  Add(PrimeCoef(logs, k, j - 1), Mul(c, Int2Num(e)))

RECURSIVE LCMDen(_, _)
LCMDen(coefs, j) ==
    IF j = 0 THEN 1
    ELSE LET l == LCMDen(coefs, j - 1)
             d == coefs[j][2]
         IN  (l \div GCD(l, d)) * d

RECURSIVE SumBound(_, _, _, _)
\* acc plus a bound on 10000 * sum of K[k] * ln(Primes[k]): the lower one or the upper one
SumBound(K, j, lower, acc) ==
    IF j = 0 THEN acc
    ELSE LET w == IF (K[j] >= 0) = lower THEN LnLo[j] ELSE LnHi[j]
         IN  SumBound(K, j - 1, lower, acc + K[j] * w)

\* "neg", "zero", "pos" for a finite value, "inexact" when the bounds on the
\* logarithms do not decide it, "nan" when the value is no finite number
SignVal(v) ==
    IF ~IsFinite(v.r) THEN "nan"
    ELSE IF \E j \in 1..Len(v.logs) : ~Factorable(v.logs[j][2]) THEN "inexact"
    ELSE LET coefs == [k \in 1..Len(Primes) |-> PrimeCoef(v.logs, k, Len(v.logs))]
             D == LCMDen(<<v.r>> \o coefs, Len(Primes) + 1)
             R == v.r[1] * (D \div v.r[2])
             K == [k \in 1..Len(Primes) |-> coefs[k][1] * (D \div coefs[k][2])]
             lo == SumBound(K, Len(Primes), TRUE, R * 10000)
             hi == SumBound(K, Len(Primes), FALSE, R * 10000)
         IN  IF R = 0 /\ \A k \in 1..Len(Primes) : K[k] = 0 THEN "zero"
             ELSE IF lo > 0 THEN "pos"
             ELSE IF hi < 0 THEN "neg"
             ELSE "inexact"

IsZeroVal(v) == SignVal(v) = "zero"

\* u < v, u <= v on finite values
LtVal(u, v) == SignVal(SubVal(v, u)) = "pos"
LeVal(u, v) == SignVal(SubVal(v, u)) \in {"pos", "zero"}

----------------------------------------------------------------------------
(* The module's tables *)

\* Python's None among strings; None among numbers is the empty tuple
None == "None"
NoNum == <<>>

_MODELS == {"Langmuir", "Quadratic", "BET", "Sips", "DSLF"}

ParamNames(model) ==
    CASE model = "Langmuir" -> {"M", "K"}
      [] model = "Quadratic" -> {"M", "Ka", "Kb"}
      [] model = "BET" -> {"M", "Ka", "Kb"}
      [] model = "Sips" -> {"M", "K", "n"}
      [] model = "DSLF" -> {"M1", "K1", "n1", "M2", "K2", "n2"}

\* _MODEL_PARAMS[model] as the module defines it: every parameter nan
_MODEL_PARAMS(model) == [p \in ParamNames(model) |-> NaN]

----------------------------------------------------------------------------
(* ModelIsotherm.loading and ModelIsotherm.spreading_pressure *)

ModelLoading(model, params, pressure) ==
    CASE model = "Langmuir" ->
            Div(Mul(Mul(params["M"], params["K"]), pressure),
                Add(One, Mul(params["K"], pressure)))
      [] model = "Quadratic" ->
            Div(Mul(Mul(params["M"],
                        Add(params["Ka"], Mul(Mul(Int2Num(2), params["Kb"]), pressure))),
                    pressure),
                Add(Add(One, Mul(params["Ka"], pressure)),
                    Mul(params["Kb"], Pow(pressure, Int2Num(2)))))
      [] model = "BET" ->
            Div(Mul(Mul(params["M"], params["Ka"]), pressure),
                Mul(Sub(One, Mul(params["Kb"], pressure)),
                    Add(Sub(One, Mul(params["Kb"], pressure)), Mul(params["Ka"], pressure))))
      [] model = "Sips" ->
            LET kp_n == Pow(Mul(params["K"], pressure), params["n"])
            IN  Div(Mul(params["M"], kp_n), Add(One, kp_n))
      [] model = "DSLF" ->
            LET k1p_n1 == Pow(Mul(params["K1"], pressure), params["n1"])
                k2p_n2 == Pow(Mul(params["K2"], pressure), params["n2"])
            IN  Add(Div(Mul(params["M1"], k1p_n1), Add(One, k1p_n1)),
                    Div(Mul(params["M2"], k2p_n2), Add(One, k2p_n2)))

\* the term of lines 278-279 without its "1.0 +"
SiteSpreadingPressureNoOne(M, K, n, pressure) ==
    LogVal(Div(M, n), Pow(Mul(K, pressure), n))

\* M / n * np.log(1.0 + (K * pressure) ** n), the term of lines 278-279 and 282-286
SiteSpreadingPressure(M, K, n, pressure) ==
    LogVal(Div(M, n), Add(One, Pow(Mul(K, pressure), n)))

ModelSpreadingPressure(model, params, pressure) ==
    CASE model = "Langmuir" ->
            LogVal(params["M"], Add(One, Mul(params["K"], pressure)))
      [] model = "Quadratic" ->
            LogVal(params["M"],
                   Add(Add(One, Mul(params["Ka"], pressure)),
                       Mul(params["Kb"], Pow(pressure, Int2Num(2)))))
      [] model = "BET" ->
            LogVal(params["M"],
                   Div(Add(Sub(One, Mul(params["Kb"], pressure)), Mul(params["Ka"], pressure)),
                       Sub(One, Mul(params["Kb"], pressure))))
      [] model = "Sips" ->
            SiteSpreadingPressure(params["M"], params["K"], params["n"], pressure)
      [] model = "DSLF" ->
            AddVal(SiteSpreadingPressure(params["M1"], params["K1"], params["n1"], pressure),
                   SiteSpreadingPressure(params["M2"], params["K2"], params["n2"], pressure))

----------------------------------------------------------------------------
(* DataFrames: a sequence of rows <<pressure, loading>> of integers.  The   *)
(* caller's table carries the default index, so a row's label is its        *)
(* position, counted from 0.                                                *)

RECURSIVE MaxOf(_, _, _)
\* the largest of column c over the first j rows
MaxOf(df, c, j) ==
    IF j = 1 THEN df[1][c]
    ELSE LET m == MaxOf(df, c, j - 1) IN IF df[j][c] > m THEN df[j][c] ELSE m

ColMax(df, c) == MaxOf(df, c, Len(df))

RECURSIVE NonzeroFrom(_, _, _)
NonzeroFrom(df, c, j) ==
    IF j > Len(df) THEN <<>>
    ELSE IF df[j][c] # 0 THEN <<j>> \o NonzeroFrom(df, c, j + 1)
    ELSE NonzeroFrom(df, c, j + 1)

\* the positions of the rows of df whose column c is not 0, in order: df[df[c] != 0.0]
Nonzero(df, c) == NonzeroFrom(df, c, 1)

HasZeroPressure(df) == \E j \in 1..Len(df) : df[j][1] = 0

RECURSIVE InsertRow(_, _)
\* row put into the ascending rows, behind the rows of no greater pressure
InsertRow(rows, row) ==
    IF rows = <<>> THEN <<row>>
    ELSE IF rows[Len(rows)][1] <= row[1] THEN Append(rows, row)
    ELSE Append(InsertRow(SubSeq(rows, 1, Len(rows) - 1), row), rows[Len(rows)])

RECURSIVE SortFirst(_, _)
SortFirst(df, j) == IF j = 0 THEN <<>> ELSE InsertRow(SortFirst(df, j - 1), df[j])

\* line 339 without the sort
SortByPressureNot(df) == df

\* df.sort([pressure_key], ascending=True): a new frame, the argument is left as it is
SortByPressure(df) == SortFirst(df, Len(df))

----------------------------------------------------------------------------
(* get_default_guess_params.  Series.argmin is pandas' idxmin under every   *)
(* pandas this Python 2 module runs with: it returns the LABEL of the first *)
(* smallest entry, and .iloc then reads by POSITION in the filtered frame.  *)
(* The result is [err |-> "none", guess |-> dictionary], or the error       *)
(* pandas raises.                                                           *)

get_default_guess_params(model, df, pressure_key, loading_key) ==
    LET saturation_loading == Mul(<<11, 10>>, Int2Num(ColMax(df, 2)))
        nonzero == Nonzero(df, 2)
        \* position in df of the first row of df_nonzero with the least loading
        least == CHOOSE j \in 1..Len(nonzero) :
                    /\ \A k \in 1..Len(nonzero) : df[nonzero[j]][2] <= df[nonzero[k]][2]
                    /\ \A k \in 1..(j - 1) : df[nonzero[k]][2] > df[nonzero[j]][2]
        idx_min == nonzero[least] - 1
        row == df[nonzero[idx_min + 1]]
        langmuir_k == Div(Div(Int2Num(row[2]), Int2Num(row[1])),
                          Sub(saturation_loading, Int2Num(row[1])))
        g == CASE model = "Langmuir" ->
                    [p \in {"M", "K"} |->
                       IF p = "M" THEN saturation_loading ELSE langmuir_k]
               [] model = "Quadratic" ->
                    [p \in {"M", "Ka", "Kb"} |->
                       IF p = "M" THEN Div(saturation_loading, Int2Num(2))
                       ELSE IF p = "Ka" THEN langmuir_k
                       ELSE Pow(langmuir_k, Int2Num(2))]
               [] model = "BET" ->
                    [p \in {"M", "Ka", "Kb"} |->
                       IF p = "M" THEN saturation_loading
                       ELSE IF p = "Ka" THEN langmuir_k
                       ELSE Mul(langmuir_k, <<1, 100>>)]
               [] model = "Sips" ->
                    [p \in {"M", "K", "n"} |->
                       IF p = "M" THEN saturation_loading
                       ELSE IF p = "K" THEN langmuir_k
                       ELSE One]
               [] model = "DSLF" ->
                    [p \in {"M1", "K1", "n1", "M2", "K2", "n2"} |->
                       IF p = "M1" THEN saturation_loading
                       ELSE IF p = "M2" THEN Mul(<<1, 100>>, saturation_loading)
                       ELSE IF p \in {"K1", "K2"} THEN langmuir_k
                       ELSE One]
               \* no branch of lines 55-74 is taken: the function returns None
               [] OTHER -> <<>>
    IN  IF loading_key = None THEN [err |-> "KeyError", guess |-> <<>>, reads |-> {}]
        ELSE IF nonzero = <<>>
        THEN [err |-> "ValueError", guess |-> <<>>, reads |-> {loading_key}]
        ELSE IF idx_min >= Len(nonzero)
        THEN [err |-> "IndexError", guess |-> <<>>, reads |-> {loading_key}]
        ELSE IF pressure_key = None
        THEN [err |-> "KeyError", guess |-> <<>>, reads |-> {loading_key}]
        ELSE [err |-> "none", guess |-> g, reads |-> {loading_key, pressure_key}]

----------------------------------------------------------------------------
(* InterpolatorIsotherm: the frame it stores, interp1d, and its two         *)
(* evaluations.  An evaluation returns [err |-> "none", val |-> value] or   *)
(* [err |-> the error raised, val |-> ZeroVal].                             *)

\* lines 333-339: the zero point is put in front when no sample has pressure 0
ZeroAugmented(df) == IF ~HasZeroPressure(df) THEN << <<0, 0>> >> \o df ELSE df

StoredFrame(df) == SortByPressure(ZeroAugmented(df))

\* np.sum(pressures <= pressure) for line 425's np.sum(pressures < pressure)
CountBelowOrAt(xs, P) == Cardinality({j \in 1..Len(xs) : Le(Int2Num(xs[j]), P)})

CountBelow(xs, P) == Cardinality({j \in 1..Len(xs) : Lt(Int2Num(xs[j]), P)})

\* scipy's interp1d(x, y) called at P: linear between the neighbours of P; outside
\* [x[0], x[-1]] it raises its ValueError ("A value in x_new is above the
\* interpolation range.") unless it was built with a fill_value and bounds_error=False
Interp1d(df, fill_value, P) ==
    LET n == Len(df)
        below == Lt(P, Int2Num(df[1][1]))
        above == Lt(Int2Num(df[n][1]), P)
        cnt == CountBelow([j \in 1..n |-> df[j][1]], P)
        hi == (IF cnt < 1 THEN 1 ELSE IF cnt > n - 1 THEN n - 1 ELSE cnt) + 1
        lo == hi - 1
        slope == Div(Int2Num(df[hi][2] - df[lo][2]), Int2Num(df[hi][1] - df[lo][1]))
    IN  IF below \/ above
        THEN IF fill_value = NoNum THEN [err |-> "ValueError", val |-> ZeroVal]
             ELSE [err |-> "none", val |-> NumVal(fill_value)]
        ELSE [err |-> "none",
              val |-> NumVal(Add(Mul(slope, Sub(P, Int2Num(df[lo][1]))), Int2Num(df[lo][2])))]

InterpLoading(df, fill_value, P) == Interp1d(df, fill_value, P)

\* the guard of lines 391-392 with >= for >
OutOfRangeAtMax(df, fill_value, P) == fill_value = NoNum /\ Le(Int2Num(ColMax(df, 1)), P)

\* the guard of lines 391-392
OutOfRange(df, fill_value, P) == fill_value = NoNum /\ Lt(Int2Num(ColMax(df, 1)), P)

\* the segment's term without intercept * np.log(p2 / p1)
SegmentAreaNoLog(p1, l1, p2, l2) ==
    NumVal(Mul(Div(Sub(l2, l1), Sub(p2, p1)), Sub(p2, p1)))

\* slope * (p2 - p1) + intercept * np.log(p2 / p1) for the line from (p1, l1) to (p2, l2)
SegmentArea(p1, l1, p2, l2) ==
    LET slope == Div(Sub(l2, l1), Sub(p2, p1))
        intercept == Sub(l1, Mul(slope, p1))
    IN  AddVal(NumVal(Mul(slope, Sub(p2, p1))), LogVal(intercept, Div(p2, p1)))

RECURSIVE FullSegments(_, _, _)
\* the loop of lines 435-442: the segments between the first k + 1 nonzero samples
FullSegments(df, nz, k) ==
    IF k = 0 THEN ZeroVal
    ELSE AddVal(FullSegments(df, nz, k - 1),
                SegmentArea(Int2Num(df[nz[k]][1]), Int2Num(df[nz[k]][2]),
                            Int2Num(df[nz[k + 1]][1]), Int2Num(df[nz[k + 1]][2])))

\* lines 425-449: the intervals spreading_pressure integrates over, in the order
\* it adds them: [0, P] alone when n_points = 0 (Henry's law, line 429), else
\* [0, P_1] (area = loadings[0], line 432), the intervals of the loop of lines
\* 435-442, and [P_n, P] (lines 445-449)
IntegratedSegments(df, P) ==
    LET nz == Nonzero(df, 1)
        pressures == [j \in 1..Len(nz) |-> Int2Num(df[nz[j]][1])]
        n_points == CountBelow([j \in 1..Len(nz) |-> df[nz[j]][1]], P)
    IN  IF n_points = 0 THEN << <<Zero, P>> >>
        ELSE << <<Zero, pressures[1]>> >>
               \o [i \in 1..(n_points - 1) |-> <<pressures[i], pressures[i + 1]>>]
               \o << <<pressures[n_points], P>> >>

InterpSpreadingPressure(df, fill_value, P) ==
    LET nz == Nonzero(df, 1)
        henry_const == Div(Int2Num(df[nz[1]][2]), Int2Num(df[nz[1]][1]))
        n_points == CountBelow([j \in 1..Len(nz) |-> df[nz[j]][1]], P)
        at == InterpLoading(df, fill_value, P)
        lastrow == df[nz[n_points]]
    IN  IF OutOfRange(df, fill_value, P) THEN [err |-> "OutOfRangeError", val |-> ZeroVal]
        ELSE IF nz = <<>> THEN [err |-> "IndexError", val |-> ZeroVal]
        ELSE IF n_points = 0 THEN [err |-> "none", val |-> NumVal(Mul(henry_const, P))]
        ELSE IF at.err # "none" THEN at
        ELSE [err |-> "none",
              val |-> AddVal(AddVal(NumVal(Int2Num(df[nz[1]][2])),
                                    FullSegments(df, nz, n_points - 1)),
                             SegmentArea(Int2Num(lastrow[1]), Int2Num(lastrow[2]), P, at.val.r))]

----------------------------------------------------------------------------
(* ModelIsotherm.__init__ up to the fit (lines 134-171) *)

\* CheckModel without lines 137-139
CheckModelNotNone(model) == IF model = None THEN "ModelNotSpecified" ELSE "none"

\* lines 134-139
CheckModel(model) ==
    IF model = None THEN "ModelNotSpecified"
    ELSE IF model \notin _MODELS THEN "UnknownModel"
    ELSE "none"

\* lines 147-150 and 340-343
CheckKeys(loading_key, pressure_key) ==
    IF None \in {loading_key, pressure_key} THEN "MissingColumnSpec" ELSE "none"

\* lines 163-168 without the test of lines 165-167
CheckOverridesNothing(guess, param_guess) == "none"

\* lines 163-167: a key of the caller's param_guess that the default guess does not have
CheckOverrides(guess, param_guess) ==
    IF \E k \in DOMAIN param_guess : k \notin DOMAIN guess
    THEN "InvalidParameterName" ELSE "none"

\* line 168, for every key of param_guess
Overridden(guess, param_guess) ==
    [p \in DOMAIN guess |-> IF p \in DOMAIN param_guess THEN param_guess[p] ELSE guess[p]]

\* What the constructor did before _fit: the error it raised ("none": it reached
\* the fit), the steps it ran, the column names it read df through, and
\* self.param_guess.  param_guess = <<>> is the caller's None.
ModelInitPrelude(model, df, loading_key, pressure_key, param_guess) ==
    LET g == get_default_guess_params(model, df, pressure_key, loading_key)
        overriding == param_guess # <<>>
        steps == IF overriding THEN <<"guess", "override">> ELSE <<"guess">>
        Raise(e, st, rd) == [err |-> e, steps |-> st, reads |-> rd, param_guess |-> <<>>]
    IN  IF CheckModel(model) # "none" THEN Raise(CheckModel(model), <<>>, {})
        ELSE IF CheckKeys(loading_key, pressure_key) # "none"
        THEN Raise(CheckKeys(loading_key, pressure_key), <<>>, {})
        ELSE IF g.err # "none" THEN Raise(g.err, <<"guess">>, g.reads)
        ELSE IF overriding /\ CheckOverrides(g.guess, param_guess) # "none"
        THEN Raise(CheckOverrides(g.guess, param_guess), steps, g.reads)
        \* line 171 looks the model up in _MODEL_PARAMS
        ELSE IF model \notin _MODELS THEN Raise("KeyError", steps, g.reads)
        ELSE [err |-> "none", steps |-> steps, reads |-> g.reads,
              param_guess |-> Overridden(g.guess, param_guess)]

----------------------------------------------------------------------------
(* ModelIsotherm._fit (lines 222-253) and the minimizer it calls *)

\* residual_sum_of_squares(params_), lines 233-237: it writes params_ into
\* self.params and returns the sum over the rows of df of
\* (loading - self.loading(pressure)) ** 2, kept symbolic as "the RSS at params_"
residual_sum_of_squares(params_) == [rss_at |-> params_]

Methods == {"Nelder-Mead", "BFGS"}

\* The points a minimizer run may visit: the starting guess and the points whose
\* coordinates all equal one small positive integer.
Points(model, guess) ==
    {guess} \cup {[p \in ParamNames(model) |-> Int2Num(v)] : v \in 1..MaxParam}

Diagnostics(success) ==
    IF success THEN {"Optimization terminated successfully."}
    ELSE {"Maximum number of function evaluations has been exceeded.",
          "Maximum number of iterations has been exceeded."}

\* scipy.optimize.minimize(residual_sum_of_squares, guess, method): the results it
\* may return.  x is the solution, fun the objective at x, callback the point of
\* its last call of the objective (which wrote that point into self.params).
Minimize(model, df, guess, method) ==
    UNION {
      {[success |-> ok, message |-> m, x |-> x,
        fun |-> residual_sum_of_squares(x), callback |-> c, method |-> method] :
          m \in Diagnostics(ok), x \in Points(model, guess), c \in Points(model, guess)} :
      ok \in BOOLEAN}

\* lines 244-247: the text of the exception raised when the fit failed
FitFailureText(model, opt_res) ==
    {"Minimization of RSS for " \o model \o " isotherm fitting failed.",
     "Try a different starting point in the nonlinear optimization by passing a dictionary of parameter guesses, param_guess, to the constructor"}

\* _fit without line 243
FitFailureSilent(opt_res) == <<>>

\* line 243
FitFailurePrinted(opt_res) == <<opt_res.message>>

\* _fit without lines 250-251: self.params keeps the objective's last write
FittedParamsLastCall(opt_res) == opt_res.callback

\* lines 250-251
FittedParams(opt_res) == opt_res.x

\* line 157: self.rmse = np.nan
RmseNaN == [sqrt_of |-> <<>>, over |-> 0]

\* line 253, kept symbolic: np.sqrt(opt_res.fun / self.df.shape[0])
FittedRmse(opt_res, df) == [sqrt_of |-> <<opt_res.fun>>, over |-> Len(df)]

\* line 171 without copy.deepcopy: self.params is the module's dictionary
ParamsAddressShared(slot, model) == model

\* line 171: self.params is a deep copy, a dictionary of the new object's own
\* (its address is the name of the variable the object is being built for)
ParamsAddress(slot, model) == slot

\* line 146: self.df is the caller's DataFrame itself
ModelFrameAddress(slot) == "caller"

----------------------------------------------------------------------------
(* InterpolatorIsotherm.__init__ (lines 331-356) *)

\* The error raised ("none": the object is built), the column names df was read
\* through, and the frame stored in self.df.  Line 333 reads df[pressure_key]
\* before line 340 looks at the two names.
InterpInit(df, loading_key, pressure_key) ==
    IF pressure_key = None THEN [err |-> "KeyError", reads |-> {}, frame |-> <<>>]
    ELSE IF CheckKeys(loading_key, pressure_key) # "none"
    THEN [err |-> CheckKeys(loading_key, pressure_key), reads |-> {pressure_key},
          frame |-> <<>>]
    ELSE [err |-> "none", reads |-> {pressure_key, loading_key}, frame |-> StoredFrame(df)]

\* lines 334-339: pd.concat and df.sort return new frames; self.df is a frame of
\* the new object's own
InterpFrameAddress(slot) == slot

----------------------------------------------------------------------------
(* The state *)

Slots == {"a", "b"}

Keys == {None, "P", "L"}

Rows == (0..MaxP) \X (0..MaxL)

\* The caller's tables: 1..MaxRows samples in any order, at pairwise distinct
\* pressures, one of them at least at a nonzero pressure.
Tables ==
    {t \in UNION {[1..n -> Rows] : n \in 1..MaxRows} :
        /\ \A j, k \in DOMAIN t : j # k => t[j][1] # t[k][1]
        /\ \E j \in DOMAIN t : t[j][1] # 0}

Queries == 0..(MaxP + 1)

FillValues == {NoNum} \cup {Int2Num(v) : v \in 0..MaxL}

\* the caller's param_guess: None, one known key, one unknown key, both
ParamGuesses(model) ==
    LET known == IF model = "DSLF" THEN "M1" ELSE "M"
    IN  {<<>>,
         [p \in {known} |-> Int2Num(MaxParam)],
         [p \in {"Bogus"} |-> One],
         [p \in {known, "Bogus"} |-> One]}

Unbound ==
    [kind |-> "none", model |-> None, df |-> None, loading_key |-> None,
     pressure_key |-> None, rmse |-> RmseNaN, param_guess |-> <<>>,
     params |-> None, fill_value |-> NoNum]

NoCall ==
    [op |-> "none", slot |-> None, model |-> None, loading_key |-> None,
     pressure_key |-> None, param_guess |-> <<>>, fill_value |-> NoNum,
     pressure |-> NoNum, err |-> "none", text |-> {}, printed |-> <<>>,
     steps |-> <<>>, reads |-> {}, opt |-> <<>>, ret |-> <<>>]

\* the frame an object's self.df names
FrameOf(obj) == IF obj.df = "caller" THEN table ELSE frames[obj.df]

Init ==
    /\ table \in Tables
    /\ frames = [s \in Slots |-> <<>>]
    /\ dicts = [a \in _MODELS \cup Slots |-> IF a \in _MODELS THEN _MODEL_PARAMS(a) ELSE <<>>]
    /\ inst = [s \in Slots |-> Unbound]
    /\ last = NoCall

----------------------------------------------------------------------------
(* The operations *)

\* slot = ModelIsotherm(table, loading_key, pressure_key, model, param_guess,
\*                      optimization_method)
ModelIsotherm(slot, model, loading_key, pressure_key, param_guess, optimization_method) ==
    LET pre == ModelInitPrelude(model, table, loading_key, pressure_key, param_guess)
        call == [NoCall EXCEPT !.op = "ModelIsotherm", !.slot = slot, !.model = model,
                               !.loading_key = loading_key, !.pressure_key = pressure_key,
                               !.param_guess = param_guess, !.steps = pre.steps,
                               !.reads = pre.reads]
    IN  IF pre.err # "none"
        THEN /\ last' = [call EXCEPT !.err = pre.err]
             /\ UNCHANGED <<table, frames, dicts, inst>>
        ELSE \E opt_res \in Minimize(model, table, pre.param_guess, optimization_method) :
               LET addr == ParamsAddress(slot, model)
               IN  IF ~opt_res.success
                   THEN /\ last' = [call EXCEPT !.err = "OptimizationFailure",
                                                !.text = FitFailureText(model, opt_res),
                                                !.printed = FitFailurePrinted(opt_res),
                                                !.steps = pre.steps \o <<"minimize">>,
                                                !.opt = <<opt_res>>]
                        \* the new object is dropped, and its own dictionary with it;
                        \* a dictionary it does not own keeps the objective's last write
                        /\ dicts' = IF addr = slot THEN dicts
                                    ELSE [dicts EXCEPT ![addr] = opt_res.callback]
                        /\ UNCHANGED <<table, frames, inst>>
                   ELSE /\ last' = [call EXCEPT !.steps = pre.steps \o <<"minimize", "store">>,
                                                !.opt = <<opt_res>>]
                        /\ dicts' = [dicts EXCEPT ![addr] = FittedParams(opt_res)]
                        /\ inst' = [inst EXCEPT ![slot] =
                                      [kind |-> "ModelIsotherm", model |-> model,
                                       df |-> ModelFrameAddress(slot),
                                       loading_key |-> loading_key,
                                       pressure_key |-> pressure_key,
                                       rmse |-> FittedRmse(opt_res, table),
                                       param_guess |-> pre.param_guess,
                                       params |-> addr, fill_value |-> NoNum]]
                        /\ UNCHANGED <<table, frames>>

\* slot = InterpolatorIsotherm(table, loading_key, pressure_key, fill_value)
InterpolatorIsotherm(slot, loading_key, pressure_key, fill_value) ==
    LET built == InterpInit(table, loading_key, pressure_key)
        addr == InterpFrameAddress(slot)
        call == [NoCall EXCEPT !.op = "InterpolatorIsotherm", !.slot = slot,
                               !.loading_key = loading_key, !.pressure_key = pressure_key,
                               !.fill_value = fill_value, !.reads = built.reads]
    IN  IF built.err # "none"
        THEN /\ last' = [call EXCEPT !.err = built.err]
             /\ UNCHANGED <<table, frames, dicts, inst>>
        ELSE /\ last' = call
             /\ IF addr = "caller"
                THEN table' = built.frame /\ UNCHANGED frames
                ELSE frames' = [frames EXCEPT ![addr] = built.frame] /\ UNCHANGED table
             /\ inst' = [inst EXCEPT ![slot] =
                           [kind |-> "InterpolatorIsotherm", model |-> None, df |-> addr,
                            loading_key |-> loading_key, pressure_key |-> pressure_key,
                            rmse |-> RmseNaN, param_guess |-> <<>>,
                            params |-> None, fill_value |-> fill_value]]
             /\ UNCHANGED dicts

\* the outcome of slot.loading(P)
LoadingOf(obj, P) ==
    IF obj.kind = "ModelIsotherm"
    THEN [err |-> "none", val |-> NumVal(ModelLoading(obj.model, dicts[obj.params], P))]
    ELSE InterpLoading(FrameOf(obj), obj.fill_value, P)

\* the outcome of slot.spreading_pressure(P)
SpreadingPressureOf(obj, P) ==
    IF obj.kind = "ModelIsotherm"
    THEN [err |-> "none", val |-> ModelSpreadingPressure(obj.model, dicts[obj.params], P)]
    ELSE InterpSpreadingPressure(FrameOf(obj), obj.fill_value, P)

Returned(op, slot, P, out) ==
    [NoCall EXCEPT !.op = op, !.slot = slot, !.pressure = P, !.err = out.err,
                   !.ret = IF out.err = "none" THEN <<out.val>> ELSE <<>>]

\* a loading that resets self.rmse
LoadingWriting(slot, pressure) ==
    /\ inst[slot].kind # "none"
    /\ last' = Returned("loading", slot, pressure, LoadingOf(inst[slot], pressure))
    /\ inst' = [inst EXCEPT ![slot].rmse = RmseNaN]
    /\ UNCHANGED <<table, frames, dicts>>

\* slot.loading(pressure)
Loading(slot, pressure) ==
    /\ inst[slot].kind # "none"
    /\ last' = Returned("loading", slot, pressure, LoadingOf(inst[slot], pressure))
    /\ UNCHANGED <<table, frames, dicts, inst>>

\* slot.spreading_pressure(pressure)
SpreadingPressure(slot, pressure) ==
    /\ inst[slot].kind # "none"
    /\ last' = Returned("spreading_pressure", slot, pressure,
                        SpreadingPressureOf(inst[slot], pressure))
    /\ UNCHANGED <<table, frames, dicts, inst>>

----------------------------------------------------------------------------
(* The caller.  It is a script: it binds each of its variables once, it     *)
(* goes on after an evaluation that raised, and a constructor that raised   *)
(* ends it.                                                                 *)

Running == last.err = "none"

Fresh(slot) == Running /\ inst[slot].kind = "none"

AnyModel == _MODELS \cup {None, "Unknown"}

\* One object, built with any arguments
NewModelIsotherm ==
    \E model \in AnyModel, lk \in {None, "L"}, pk \in {None, "P"}, m \in Methods :
      \E pg \in ParamGuesses(model) :
        Fresh("a") /\ ModelIsotherm("a", model, lk, pk, pg, m)

NewInterpolatorIsotherm ==
    \E lk \in {None, "L"}, pk \in {None, "P"}, fv \in FillValues :
      Fresh("a") /\ InterpolatorIsotherm("a", lk, pk, fv)

CallLoading == \E P \in Queries : Loading("a", Int2Num(P))

CallSpreadingPressure == \E P \in Queries : SpreadingPressure("a", Int2Num(P))

\* Two objects built from the one table, with arguments that name a model and
\* both columns
SharedModelIsotherm ==
    \E s \in Slots, model \in _MODELS :
      Fresh(s) /\ ModelIsotherm(s, model, "L", "P", <<>>, "Nelder-Mead")

SharedInterpolatorIsotherm ==
    \E s \in Slots, fv \in FillValues :
      Fresh(s) /\ InterpolatorIsotherm(s, "L", "P", fv)

\* the constructors
NextConstruct == NewModelIsotherm \/ NewInterpolatorIsotherm

SpecConstruct == Init /\ [][NextConstruct]_vars

\* an InterpolatorIsotherm and its evaluations
NextInterp == NewInterpolatorIsotherm \/ CallLoading \/ CallSpreadingPressure

SpecInterp == Init /\ [][NextInterp]_vars

\* two objects, built from a table of one sample
InitShared == Init /\ Len(table) = 1

NextShared == SharedModelIsotherm \/ SharedInterpolatorIsotherm

SpecShared == InitShared /\ [][NextShared]_vars

\* one object of either kind and its evaluations
Next ==
    \/ Fresh("a") /\ \E model \in _MODELS :
                        ModelIsotherm("a", model, "L", "P", <<>>, "Nelder-Mead")
    \/ Fresh("a") /\ \E fv \in FillValues : InterpolatorIsotherm("a", "L", "P", fv)
    \/ CallLoading
    \/ CallSpreadingPressure

Spec == Init /\ [][Next]_vars

\* The evaluations of a fitted ModelIsotherm, as functions of its parameters: the
\* object is one whose fit returned any vector of the values -1..MaxParam.
ParamVals == {Int2Num(v) : v \in -1..MaxParam}

InitModelFn ==
    /\ table = << <<1, 1>> >>
    /\ frames = [s \in Slots |-> <<>>]
    /\ \E model \in _MODELS :
         \E x \in [ParamNames(model) -> ParamVals] :
           /\ dicts = [a \in _MODELS \cup Slots |->
                         IF a \in _MODELS THEN _MODEL_PARAMS(a)
                         ELSE IF a = "a" THEN x ELSE <<>>]
           /\ inst = [s \in Slots |->
                        IF s = "a"
                        THEN [kind |-> "ModelIsotherm", model |-> model,
                              df |-> ModelFrameAddress("a"),
                              loading_key |-> "L", pressure_key |-> "P",
                              rmse |-> [sqrt_of |-> <<residual_sum_of_squares(x)>>,
                                        over |-> Len(table)],
                              param_guess |-> x, params |-> ParamsAddress("a", model),
                              fill_value |-> NoNum]
                        ELSE Unbound]
    /\ last = NoCall

NextModelFn == CallLoading \/ CallSpreadingPressure

SpecModelFn == InitModelFn /\ [][NextModelFn]_vars

----------------------------------------------------------------------------
(* Properties.  `last` is the call made last: its arguments, the error it   *)
(* raised, the steps the constructor ran and what it returned.              *)

Constructors == {"ModelIsotherm", "InterpolatorIsotherm"}

Evaluations == {"loading", "spreading_pressure"}

StepsRun == {last.steps[j] : j \in DOMAIN last.steps}

\* the largest pressure of the caller's table
MaxObserved ==
    CHOOSE p \in {table[j][1] : j \in DOMAIN table} : \A j \in DOMAIN table : table[j][1] <= p

\* C1: a ModelIsotherm call whose model name is given and is none of _MODELS
\* raises UnknownModel; it has computed no default guess, read no column, called
\* no minimizer and built no object, whatever the table, the column names and
\* param_guess are.
C1_UnknownModelFirst ==
    (last.op = "ModelIsotherm" /\ last.model # None /\ last.model \notin _MODELS)
        => /\ last.err = "UnknownModel"
           /\ last.steps = <<>>
           /\ last.reads = {}
           /\ last.opt = <<>>
           /\ inst[last.slot].kind = "none"

C1_Witness ==
    /\ last.op = "ModelIsotherm" /\ last.model = "Unknown"
    /\ last.err = "UnknownModel"
    /\ last.pressure_key = None
    /\ "Bogus" \in DOMAIN last.param_guess

C4_MissingColumnSpec ==
    (/\ last.op \in Constructors
     /\ last.op = "ModelIsotherm" => last.model \in _MODELS
     /\ None \in {last.loading_key, last.pressure_key})
        => /\ last.err = "MissingColumnSpec"
           /\ last.reads = {}

\* C5, as the claim states it: when the minimizer reports failure the
\* constructor raises OptimizationFailure, the exception's text carries the
\* minimizer's message, and no object is built.
C5_MessageInException ==
    (last.op = "ModelIsotherm" /\ last.opt # <<>> /\ ~last.opt[1].success)
        => /\ last.err = "OptimizationFailure"
           /\ last.opt[1].message \in last.text
           /\ inst[last.slot].kind = "none"

\* C5, amended: when the minimizer reports failure the constructor raises
\* OptimizationFailure with the fixed text that names the model and the
\* param_guess remedy, it has printed the minimizer's message to standard output
\* and the exception does not carry it, and no object is built.
C5_MessagePrinted ==
    (last.op = "ModelIsotherm" /\ last.opt # <<>> /\ ~last.opt[1].success)
        => /\ last.err = "OptimizationFailure"
           /\ last.text = FitFailureText(last.model, last.opt[1])
           /\ last.opt[1].message \notin last.text
           /\ last.printed = <<last.opt[1].message>>
           /\ "store" \notin StepsRun
           /\ inst[last.slot].kind = "none"

C5_Witness ==
    /\ last.op = "ModelIsotherm" /\ last.err = "OptimizationFailure"
    /\ last.opt # <<>>
    /\ last.opt[1].message = "Maximum number of iterations has been exceeded."
    /\ last.printed # <<>>

\* C6: every loading or spreading_pressure call on a built object, the ones that
\* raise included, leaves the objects (rmse, fill_value, column names), the
\* parameter dictionaries, the stored frames and the caller's table as they
\* were, and a call repeated at once gives the same outcome.
C6_EvaluationsReadOnly ==
    [][last'.op \in Evaluations
         => /\ UNCHANGED <<inst, dicts, frames, table>>
            /\ (last.op = last'.op /\ last.pressure = last'.pressure) => last' = last]_vars

C6_Witness ==
    /\ last.op = "loading" /\ last.err = "ValueError"
    /\ inst["a"].kind = "InterpolatorIsotherm"
    /\ FrameOf(inst["a"]) = StoredFrame(table)

\* the exponents of a parameter dictionary
Exponents(params) == {params[p] : p \in DOMAIN params \cap {"n", "n1", "n2"}}

\* C7, as the claim states it: for each of the five models and every parameter
\* vector, loading(0) = 0 and spreading_pressure(0) = 0.
C7_ZeroAtZero ==
    (/\ last.op \in Evaluations
     /\ inst[last.slot].kind = "ModelIsotherm"
     /\ last.pressure = Zero)
        => last.ret # <<>> /\ IsZeroVal(last.ret[1])

\* C7, amended: for each of the five models and every vector of finite
\* parameters whose exponents (n of Sips, n1 and n2 of DSLF) are positive,
\* loading(0) = 0 and spreading_pressure(0) = 0.
C7_ZeroAtZeroPositiveExponents ==
    (/\ last.op \in Evaluations
     /\ inst[last.slot].kind = "ModelIsotherm"
     /\ last.pressure = Zero
     /\ \A v \in {dicts[inst[last.slot].params][p] : p \in ParamNames(inst[last.slot].model)} :
          IsFinite(v)
     /\ \A n \in Exponents(dicts[inst[last.slot].params]) : Lt(Zero, n))
        => last.ret # <<>> /\ IsZeroVal(last.ret[1])

C7_Witness ==
    /\ last.op = "spreading_pressure" /\ last.pressure = Zero
    /\ inst["a"].kind = "ModelIsotherm" /\ inst["a"].model = "DSLF"
    /\ \A p \in ParamNames("DSLF") : dicts["a"][p] = One
    /\ last.ret = <<ZeroVal>>

\* the pressures the monotonicity of spreading_pressure is examined at: the
\* halves from 0 to MaxP + 1
HalfQueries == {Norm(k, 2) : k \in 0..(2 * (MaxP + 1))}

\* spreading_pressure of the InterpolatorIsotherm in variable "a"
Area(P) == InterpSpreadingPressure(FrameOf(inst["a"]), inst["a"].fill_value, P)

\* C8, as the claim states it: spreading_pressure of an InterpolatorIsotherm
\* just built is strictly increasing over the pressures at which it does not raise.
C8_StrictlyIncreasing ==
    (last.op = "InterpolatorIsotherm" /\ inst["a"].kind = "InterpolatorIsotherm")
        => LET A == [P \in HalfQueries |-> Area(P)]
           IN  \A P, Q \in HalfQueries :
                 (Lt(P, Q) /\ A[P].err = "none" /\ A[Q].err = "none")
                    => LtVal(A[P].val, A[Q].val)

\* C8, amended: spreading_pressure of an InterpolatorIsotherm just built is
\* non-decreasing over the pressures at which it does not raise, and strictly
\* increasing there when every sample at a nonzero pressure has a positive loading.
C8_Increasing ==
    (last.op = "InterpolatorIsotherm" /\ inst["a"].kind = "InterpolatorIsotherm")
        => LET A == [P \in HalfQueries |-> Area(P)]
           IN  \A P, Q \in HalfQueries :
                 (Lt(P, Q) /\ A[P].err = "none" /\ A[Q].err = "none")
                    => /\ LeVal(A[P].val, A[Q].val)
                       /\ (\A j \in DOMAIN table : table[j][1] # 0 => table[j][2] > 0)
                            => LtVal(A[P].val, A[Q].val)

C8_Witness ==
    /\ inst["a"].kind = "InterpolatorIsotherm"
    /\ \A j \in DOMAIN table : table[j][2] > 0
    /\ Len(table) = MaxRows
    /\ last.op = "spreading_pressure" /\ last.err = "none"
    /\ last.pressure = Int2Num(MaxObserved)
    /\ LtVal(Area(One).val, last.ret[1])

\* what variable s holds in a state: the object, its parameters and its data
Held(i, d, f, t, s) ==
    [obj |-> i[s],
     params |-> IF i[s].kind = "ModelIsotherm" THEN d[i[s].params] ELSE <<>>,
     data |-> IF i[s].kind = "none" THEN <<>>
              ELSE IF i[s].df = "caller" THEN t ELSE f[i[s].df]]

Bound == {s \in Slots : inst[s].kind # "none"}

\* C9, as the claim states it: no object's data set and no object's parameter
\* dictionary is shared with another object, with the module or with the caller.
C9_NothingShared ==
    \A s \in Bound :
        /\ inst[s].df \notin {"caller"} \cup _MODELS
        /\ inst[s].params \notin {"caller"} \cup _MODELS
        /\ \A t \in Bound \ {s} :
             /\ inst[s].df # inst[t].df
             /\ inst[s].kind = "ModelIsotherm" /\ inst[t].kind = "ModelIsotherm"
                  => inst[s].params # inst[t].params

\* C9, amended: each object owns its parameter dictionary, and an
\* InterpolatorIsotherm its data set, exclusively (a ModelIsotherm keeps the
\* caller's table itself); a constructor call, the fit it runs included, changes
\* neither the parameters or the data of an object built before, nor the
\* module's NaN defaults, nor the caller's table.
C9_ConstructionFrame ==
    [][/\ table' = table
       /\ \A m \in _MODELS : dicts'[m] = dicts[m] /\ dicts'[m] = _MODEL_PARAMS(m)
       /\ \A s \in Bound : Held(inst', dicts', frames', table', s)
                             = Held(inst, dicts, frames, table, s)
       /\ \A s \in Slots : inst'[s].kind = "ModelIsotherm" =>
            /\ inst'[s].params \notin _MODELS
            /\ \A t \in Slots \ {s} : inst'[t].kind = "ModelIsotherm"
                                        => inst'[t].params # inst'[s].params
       /\ \A s \in Slots : inst'[s].kind = "InterpolatorIsotherm" =>
            /\ inst'[s].df # "caller"
            /\ \A t \in Slots \ {s} : inst'[t].kind # "none" => inst'[t].df # inst'[s].df]_vars

C9_Witness ==
    /\ inst["a"].kind = "ModelIsotherm" /\ inst["b"].kind = "ModelIsotherm"
    /\ inst["a"].model = inst["b"].model
    /\ dicts[inst["a"].params] # dicts[inst["b"].params]
    /\ last.slot = "b"

\* C10: the frame an InterpolatorIsotherm stores is in ascending order of
\* pressure and has a row at pressure 0; it is the rows of the table, each as it
\* was, and the row (0, 0) besides exactly when the table has no row at pressure 0.
C10_StoredFrame ==
    inst["a"].kind = "InterpolatorIsotherm"
        => LET f == FrameOf(inst["a"])
               zero == \E j \in DOMAIN table : table[j][1] = 0
           IN  /\ \A j \in 1..(Len(f) - 1) : f[j][1] <= f[j + 1][1]
               /\ \E j \in DOMAIN f : f[j][1] = 0
               /\ Len(f) = Len(table) + (IF zero THEN 0 ELSE 1)
               /\ {f[j] : j \in DOMAIN f}
                    = {table[j] : j \in DOMAIN table} \cup (IF zero THEN {} ELSE {<<0, 0>>})

C10_Witness ==
    /\ inst["a"].kind = "InterpolatorIsotherm"
    /\ Len(table) = MaxRows
    /\ \A j \in DOMAIN table : table[j][1] # 0
    /\ table[1][1] > table[2][1]
    /\ Len(frames["a"]) = MaxRows + 1
    /\ frames["a"][1] = <<0, 0>>

\* the nonzero pressures of the caller's table, and the i-th of them in ascending order
SamplePressures == {table[j][1] : j \in DOMAIN table} \ {0}

NthPressure(i) ==
    CHOOSE p \in SamplePressures : Cardinality({q \in SamplePressures : q < p}) = i - 1

\* the loading the table has at sample pressure p
LoadingAt(p) == table[CHOOSE j \in DOMAIN table : table[j][1] = p][2]

\* the integral of l(p) / p over [a, b], l the line from (a, la) to (b, lb):
\* (lb - la) + (la * b - lb * a) / (b - a) * ln(b / a)
LineIntegral(a, la, b, lb) ==
    AddVal(NumVal(Sub(lb, la)),
           LogVal(Div(Sub(Mul(la, b), Mul(lb, a)), Sub(b, a)), Div(b, a)))

RECURSIVE FullTerms(_)
\* the terms of the segments [P_i, P_i+1], i = 1..k
FullTerms(k) ==
    IF k = 0 THEN ZeroVal
    ELSE AddVal(FullTerms(k - 1),
                LineIntegral(Int2Num(NthPressure(k)), Int2Num(LoadingAt(NthPressure(k))),
                             Int2Num(NthPressure(k + 1)),
                             Int2Num(LoadingAt(NthPressure(k + 1)))))

\* C11: a spreading_pressure(P) call on an InterpolatorIsotherm that returns,
\* with n the number of nonzero sample pressures below P, P_1 < P_2 < ... the
\* nonzero sample pressures and L_i their loadings: for n = 0 it returns
\* (L_1 / P_1) * P; for n > 0 it returns L_1, plus the integral of the line
\* through the samples over [P_i, P_i+1] for i = 1..n-1, plus the integral over
\* [P_n, P] of the line from (P_n, L_n) to (P, loading(P)); the n + 1 intervals
\* it integrates over are [0, P_1], [P_1, P_2], ..., [P_n, P], each beginning
\* where the one before ends, the first at 0, the last ending at P, and each of
\* positive width.
C11_Segments ==
    (/\ last.op = "spreading_pressure" /\ last.err = "none"
     /\ inst[last.slot].kind = "InterpolatorIsotherm")
        => LET P == last.pressure
               n == Cardinality({q \in SamplePressures : Lt(Int2Num(q), P)})
               segs == IntegratedSegments(FrameOf(inst[last.slot]), P)
               atP == InterpLoading(FrameOf(inst[last.slot]), inst[last.slot].fill_value, P)
               expected ==
                   IF n = 0
                   THEN NumVal(Mul(Div(Int2Num(LoadingAt(NthPressure(1))),
                                       Int2Num(NthPressure(1))), P))
                   ELSE AddVal(AddVal(NumVal(Int2Num(LoadingAt(NthPressure(1)))),
                                      FullTerms(n - 1)),
                               LineIntegral(Int2Num(NthPressure(n)),
                                            Int2Num(LoadingAt(NthPressure(n))),
                                            P, atP.val.r))
           IN  /\ IsZeroVal(SubVal(last.ret[1], expected))
               /\ n > 0 =>
                    /\ Len(segs) = n + 1
                    /\ segs[1] = <<Zero, Int2Num(NthPressure(1))>>
                    /\ \A i \in 1..(n - 1) :
                         segs[i + 1] = <<Int2Num(NthPressure(i)), Int2Num(NthPressure(i + 1))>>
                    /\ segs[n + 1] = <<Int2Num(NthPressure(n)), P>>
                    /\ \A i \in 1..n : segs[i][2] = segs[i + 1][1]
                    /\ \A i \in 1..(n + 1) : Lt(segs[i][1], segs[i][2])

C11_Witness ==
    /\ last.op = "spreading_pressure" /\ last.err = "none"
    /\ inst["a"].kind = "InterpolatorIsotherm"
    /\ Cardinality(SamplePressures) = MaxRows
    /\ last.pressure = Int2Num(MaxP + 1)
    /\ Len(IntegratedSegments(frames["a"], last.pressure)) = MaxRows + 1
    /\ Len(last.ret[1].logs) = MaxRows

\* C12: a ModelIsotherm call runs, in this order, the default guess, the
\* overrides of the caller's param_guess when one is given, one call of the
\* minimizer, and the store of its result, and a call that fails has run a
\* beginning of that sequence; after a call that succeeds the object's
\* parameters are the minimizer's solution x, whatever point the objective wrote
\* into them last, the minimizer was started from the default guess with the
\* caller's values put over it, and rmse, nan before the call, is
\* sqrt(RSS at x / number of rows of the table).
C12_FitOrder ==
    [][last'.op = "ModelIsotherm" =>
         LET full == IF last'.param_guess # <<>>
                     THEN <<"guess", "override", "minimize", "store">>
                     ELSE <<"guess", "minimize", "store">>
             slot == last'.slot
             g == get_default_guess_params(last'.model, table, last'.pressure_key,
                                           last'.loading_key).guess
         IN  /\ Len(last'.steps) <= Len(full)
             /\ last'.steps = SubSeq(full, 1, Len(last'.steps))
             /\ Len(last'.opt) = Cardinality({j \in DOMAIN last'.steps :
                                                last'.steps[j] = "minimize"})
             /\ inst[slot].rmse = RmseNaN
             /\ (last'.err = "none") = (inst'[slot].kind = "ModelIsotherm")
             /\ last'.err # "none" => inst'[slot].rmse = RmseNaN
             /\ last'.err = "none" =>
                  /\ last'.steps = full
                  /\ last'.opt[1].success
                  /\ dicts'[inst'[slot].params] = last'.opt[1].x
                  /\ inst'[slot].param_guess =
                       [p \in ParamNames(last'.model) |->
                          IF p \in DOMAIN last'.param_guess
                          THEN last'.param_guess[p] ELSE g[p]]
                  /\ last'.opt[1].fun = residual_sum_of_squares(last'.opt[1].x)
                  /\ inst'[slot].rmse = [sqrt_of |-> <<last'.opt[1].fun>>,
                                         over |-> Len(table)]]_vars

C12_Witness ==
    /\ last.op = "ModelIsotherm" /\ last.err = "none"
    /\ last.param_guess # <<>>
    /\ last.steps = <<"guess", "override", "minimize", "store">>
    /\ last.opt[1].callback # last.opt[1].x
    /\ dicts[inst["a"].params] = last.opt[1].x
    /\ inst["a"].rmse # RmseNaN
    /\ Len(table) = MaxRows
====
